---- MODULE Spec2Model ----
(***************************************************************************)
(* Model of internal/kubernetes/client/client.go: the typed fetches, the   *)
(* GetTarget dispatch, the Get<Kind>FromPod owner resolvers and            *)
(* GetContainers, run against a cluster API session.                       *)
(*                                                                         *)
(* A Go result pair (object, error) is the record [obj, err]; the reads a  *)
(* call issues against the Session are threaded through as [reads]; an     *)
(* unrecovered runtime panic is [panic |-> TRUE].                          *)
(***************************************************************************)
EXTENDS Naturals, Sequences, FiniteSets

VARIABLES store, pc, call, result, list, reads

vars == <<store, pc, call, result, list, reads>>

----------------------------------------------------------------------------
(* Bounds of the model *)

MaxObjects == 1
MaxOwnerRefs == 2
MaxContainers == 2

Names == {"web", "db"}
Namespaces == {"ns1", "ns2"}
ContainerNames == {"app", "sidecar"}
Images == {"nginx", "busybox"}

(* Outcome of the Session's transport for one read: the request reaches the *)
(* API server and is answered from the backing data, or it is refused, or   *)
(* the connection fails.                                                    *)
Causes == {"ok", "Forbidden", "Transport"}

NamespacedKinds == {"pod", "configmap", "secret", "deployment", "daemonset",
                    "statefulset", "replicaset", "service", "serviceaccount",
                    "role"}
ClusterKinds == {"namespace", "clusterrole"}
Kinds == NamespacedKinds \cup ClusterKinds

(* Namespace component of a cluster-scoped object *)
ClusterScope == ""

Objects == [kind : NamespacedKinds, name : Names, namespace : Namespaces]
           \cup [kind : ClusterKinds, name : Names, namespace : {ClusterScope}]

(* Go nil pointer / nil error *)
NilObj == [kind |-> "nil", name |-> "", namespace |-> ""]
NoErr == <<>>

RECURSIVE SeqsUpTo(_, _)
SeqsUpTo(S, n) ==
    IF n = 0 THEN {<<>>}
    ELSE LET shorter == SeqsUpTo(S, n - 1)
         IN  shorter \cup {Append(s, x) : s \in {t \in shorter : Len(t) = n - 1}, x \in S}

OwnerReference == [Name : Names]
Container == [Name : ContainerNames, Image : Images]

(* corev1.Pod, reduced to the fields the client reads *)
OwnerPods == [Namespace : Namespaces,
              OwnerReferences : SeqsUpTo(OwnerReference, MaxOwnerRefs),
              Containers : {<<[Name |-> "app", Image |-> "nginx"]>>}]
ContainerPods == [Namespace : {"ns1"},
                  OwnerReferences : {<<>>},
                  Containers : SeqsUpTo(Container, MaxContainers)]
NoPod == [Namespace |-> "", OwnerReferences |-> <<>>, Containers |-> <<>>]

----------------------------------------------------------------------------
(* The Session: k8s.Clientset ... Get(ctx, name, metav1.GetOptions{}) *)

(* One read of (kind, namespace, name).  On failure client-go hands back an *)
(* empty object of the kind together with the error.                        *)
SessionGet(kind, namespace, name, cause) ==
    LET key == [kind |-> kind, name |-> name, namespace |-> namespace]
        rd(outcome) == <<[kind |-> kind, namespace |-> namespace, name |-> name,
                          outcome |-> outcome]>>
        empty == [kind |-> kind, name |-> "", namespace |-> ""]
    IN  IF cause # "ok"
        THEN [obj |-> empty, err |-> <<cause>>, reads |-> rd(cause), panic |-> FALSE]
        ELSE IF key \in store
        THEN [obj |-> key, err |-> NoErr, reads |-> rd("ok"), panic |-> FALSE]
        ELSE [obj |-> empty, err |-> <<"NotFound">>, reads |-> rd("NotFound"),
              panic |-> FALSE]

(* variant: the cause of the failed read is kept in the returned error *)
NilOnError_WrapsCause(r, msg) ==
    IF r.err # NoErr
    THEN [obj |-> NilObj, err |-> msg \o <<": ">> \o r.err, reads |-> r.reads,
          panic |-> FALSE]
    ELSE [obj |-> r.obj, err |-> NoErr, reads |-> r.reads, panic |-> FALSE]

(* if err != nil { return nil, fmt.Errorf(...) }; return p, nil *)
NilOnError(r, msg) ==
    IF r.err # NoErr
    THEN [obj |-> NilObj, err |-> msg, reads |-> r.reads, panic |-> FALSE]
    ELSE [obj |-> r.obj, err |-> NoErr, reads |-> r.reads, panic |-> FALSE]

----------------------------------------------------------------------------
(* Typed fetches.  The last parameter is the transport outcome of the read *)
(* the call issues; it is an input of the environment, not of the caller.  *)

(* CoreV1().Pods(namespace).Get *)
GetPod(pod, namespace, cause) ==
    NilOnError(SessionGet("pod", namespace, pod, cause),
               <<"the pod '", pod, "' in the namespace '", namespace, "' doesn't exist">>)

(* variant: a failed read is tried once more *)
GetDeployment_Retries(name, namespace, cause) ==
    LET first == SessionGet("deployment", namespace, name, cause)
        again == SessionGet("deployment", namespace, name, cause)
        msg == <<"the deployment '", name, "' in the namespace '", namespace,
                 "' doesn't exist">>
    IN  IF first.err = NoErr THEN NilOnError(first, msg)
        ELSE NilOnError([again EXCEPT !.reads = first.reads \o again.reads], msg)

(* AppsV1().Deployments(namespace).Get *)
GetDeployment(name, namespace, cause) ==
    NilOnError(SessionGet("deployment", namespace, name, cause),
               <<"the deployment '", name, "' in the namespace '", namespace, "' doesn't exist">>)

(* AppsV1().DaemonSets(namespace).Get *)
GetDaemonSet(name, namespace, cause) ==
    NilOnError(SessionGet("daemonset", namespace, name, cause),
               <<"the daemonset '", name, "' in the namespace '", namespace, "' doesn't exist">>)

(* AppsV1().StatefulSets(namespace).Get *)
GetStatefulSet(name, namespace, cause) ==
    NilOnError(SessionGet("statefulset", namespace, name, cause),
               <<"the statefulset '", name, "' in the namespace '", namespace, "' doesn't exist">>)

(* AppsV1().ReplicaSets(namespace).Get *)
GetReplicaSet(name, namespace, cause) ==
    NilOnError(SessionGet("replicaset", namespace, name, cause),
               <<"the replicaset '", name, "' in the namespace '", namespace, "' doesn't exist">>)

(* CoreV1().Namespaces().Get: cluster-scoped, no namespace *)
GetNamespace(name, cause) ==
    NilOnError(SessionGet("namespace", ClusterScope, name, cause),
               <<"the namespace '", name, "' doesn't exist">>)

(* CoreV1().ConfigMaps(namespace).Get *)
GetConfigMap(name, namespace, cause) ==
    NilOnError(SessionGet("configmap", namespace, name, cause),
               <<"the configmap '", name, "' in the namespace '", namespace, "' doesn't exist">>)

(* CoreV1().Secrets(namespace).Get *)
GetSecret(name, namespace, cause) ==
    NilOnError(SessionGet("secret", namespace, name, cause),
               <<"the secret '", name, "' in the namespace '", namespace, "' doesn't exist">>)

(* CoreV1().Services(namespace).Get *)
GetService(name, namespace, cause) ==
    NilOnError(SessionGet("service", namespace, name, cause),
               <<"the service '", name, "' in the namespace '", namespace, "' doesn't exist">>)

(* CoreV1().ServiceAccounts(namespace).Get *)
GetServiceAccount(name, namespace, cause) ==
    NilOnError(SessionGet("serviceaccount", namespace, name, cause),
               <<"the serviceaccount '", name, "' in the namespace '", namespace, "' doesn't exist">>)

(* RbacV1().Roles(namespace).Get *)
GetRole(name, namespace, cause) ==
    NilOnError(SessionGet("role", namespace, name, cause),
               <<"the role '", name, "' in the namespace '", namespace, "' doesn't exist">>)

(* RbacV1().ClusterRoles().Get: cluster-scoped read, but the namespace *)
(* argument is formatted into the error                                *)
GetClusterRole(name, namespace, cause) ==
    NilOnError(SessionGet("clusterrole", ClusterScope, name, cause),
               <<"the clusterrole '", name, "' in the namespace '", namespace, "' doesn't exist">>)

----------------------------------------------------------------------------
(* GetContainers: c := make([]string, 0); for ... { c = append(c, i.Name) } *)

RECURSIVE AppendNames(_, _, _)
AppendNames(c, containers, i) ==
    IF i > Len(containers) THEN c
    ELSE AppendNames(Append(c, containers[i].Name), containers, i + 1)

(* variant: the loop starts one element late *)
GetContainers_SkipsFirst(pod) == AppendNames(<<>>, pod.Containers, 2)

GetContainers(pod) == AppendNames(<<>>, pod.Containers, 1)

----------------------------------------------------------------------------
(* Owner resolution *)

(* the runtime panic of pod.OwnerReferences[0] on an empty slice *)
Panic == [obj |-> NilObj, err |-> NoErr, reads |-> <<>>, panic |-> TRUE]

(* '%v' of the *corev1.Pod argument *)
FormatPod(pod) ==
    <<"&Pod{Namespace:", pod.Namespace, ",OwnerReferences:[">>
    \o [i \in 1..Len(pod.OwnerReferences) |-> pod.OwnerReferences[i].Name]
    \o <<"],Containers:[">> \o GetContainers(pod) \o <<"]}">>

(* variant: a failed fetch is reported as an owner resolution failure *)
OwnerOrError_Masks(r, msg) ==
    IF r.err # NoErr \/ r.obj = NilObj
    THEN [obj |-> NilObj, err |-> msg, reads |-> r.reads, panic |-> FALSE]
    ELSE [obj |-> r.obj, err |-> NoErr, reads |-> r.reads, panic |-> FALSE]

(* if err != nil { return nil, err }; if r == nil { return nil, fmt.Errorf(...) }; *)
(* return r, nil                                                                   *)
OwnerOrError(r, msg) ==
    IF r.err # NoErr
    THEN [obj |-> NilObj, err |-> r.err, reads |-> r.reads, panic |-> FALSE]
    ELSE IF r.obj = NilObj
    THEN [obj |-> NilObj, err |-> msg, reads |-> r.reads, panic |-> FALSE]
    ELSE [obj |-> r.obj, err |-> NoErr, reads |-> r.reads, panic |-> FALSE]

GetDeploymentFromPod(pod, cause) ==
    IF Len(pod.OwnerReferences) = 0 THEN Panic
    ELSE LET podName == pod.OwnerReferences[1].Name
             namespace == pod.Namespace
         IN  OwnerOrError(GetDeployment(podName, namespace, cause),
                 <<"can't find the deployment for the pod'">> \o FormatPod(pod)
                 \o <<"' in namespace '", namespace, "'">>)

GetDaemonsetFromPod(pod, cause) ==
    IF Len(pod.OwnerReferences) = 0 THEN Panic
    ELSE LET podName == pod.OwnerReferences[1].Name
             namespace == pod.Namespace
         IN  OwnerOrError(GetDaemonSet(podName, namespace, cause),
                 <<"can't find the daemonset for the pod'">> \o FormatPod(pod)
                 \o <<"' in namespace '", namespace, "'">>)

GetStatefulsetFromPod(pod, cause) ==
    IF Len(pod.OwnerReferences) = 0 THEN Panic
    ELSE LET podName == pod.OwnerReferences[1].Name
             namespace == pod.Namespace
         IN  OwnerOrError(GetStatefulSet(podName, namespace, cause),
                 <<"can't find the statefulset for the pod'">> \o FormatPod(pod)
                 \o <<"' in namespace '", namespace, "'">>)

(* variant: the last owner reference is read instead of the first *)
GetReplicasetFromPod_LastOwner(pod, cause) ==
    IF Len(pod.OwnerReferences) = 0 THEN Panic
    ELSE LET podName == pod.OwnerReferences[Len(pod.OwnerReferences)].Name
             namespace == pod.Namespace
         IN  OwnerOrError(GetReplicaSet(podName, namespace, cause),
                 <<"can't find the replicaset for the pod'">> \o FormatPod(pod)
                 \o <<"' in namespace '", namespace, "'">>)

GetReplicasetFromPod(pod, cause) ==
    IF Len(pod.OwnerReferences) = 0 THEN Panic
    ELSE LET podName == pod.OwnerReferences[1].Name
             namespace == pod.Namespace
         IN  OwnerOrError(GetReplicaSet(podName, namespace, cause),
                 <<"can't find the replicaset for the pod'">> \o FormatPod(pod)
                 \o <<"' in namespace '", namespace, "'">>)

----------------------------------------------------------------------------
(* Dynamic dispatch *)

(* conversion of a typed (object, error) pair to (interface{}, error): the  *)
(* interface value carries the pointer's static type, also when it is nil   *)
Erase(type, r) ==
    [obj |-> r.obj, err |-> r.err, reads |-> r.reads, panic |-> r.panic, dyn |-> type]

(* errors.New("the resource doesn't exist or its type is not yet managed") *)
ErrNotManaged == <<"the resource doesn't exist or its type is not yet managed">>

(* variant: the daemonsets tag dispatches to the daemonset fetch *)
GetTarget_DaemonSetFetch(resource, name, namespace, cause) ==
    CASE resource = "namespaces" -> Erase("*corev1.Namespace", GetNamespace(name, cause))
      [] resource = "configmaps" -> Erase("*corev1.ConfigMap", GetConfigMap(name, namespace, cause))
      [] resource = "secrets" -> Erase("*corev1.Secret", GetSecret(name, namespace, cause))
      [] resource = "deployments" -> Erase("*appsv1.Deployment", GetDeployment(name, namespace, cause))
      [] resource = "daemonsets" -> Erase("*appsv1.DaemonSet", GetDaemonSet(name, namespace, cause))
      [] resource = "statefulsets" -> Erase("*appsv1.StatefulSet", GetStatefulSet(name, namespace, cause))
      [] resource = "replicasets" -> Erase("*appsv1.ReplicaSet", GetReplicaSet(name, namespace, cause))
      [] resource = "services" -> Erase("*corev1.Service", GetService(name, namespace, cause))
      [] resource = "serviceaccounts" -> Erase("*corev1.ServiceAccount", GetServiceAccount(name, namespace, cause))
      [] resource = "roles" -> Erase("*rbacv1.Role", GetRole(name, namespace, cause))
      [] resource = "clusterroles" -> Erase("*rbacv1.ClusterRole", GetClusterRole(name, namespace, cause))
      [] OTHER -> [obj |-> NilObj, err |-> ErrNotManaged, reads |-> <<>>,
                   panic |-> FALSE, dyn |-> "nil"]

(* variant: an unknown tag is a silent no-op *)
GetTarget_SilentDefault(resource, name, namespace, cause) ==
    CASE resource = "namespaces" -> Erase("*corev1.Namespace", GetNamespace(name, cause))
      [] resource = "configmaps" -> Erase("*corev1.ConfigMap", GetConfigMap(name, namespace, cause))
      [] resource = "secrets" -> Erase("*corev1.Secret", GetSecret(name, namespace, cause))
      [] resource = "deployments" -> Erase("*appsv1.Deployment", GetDeployment(name, namespace, cause))
      [] resource = "daemonsets" -> Erase("*appsv1.Deployment", GetDeployment(name, namespace, cause))
      [] resource = "statefulsets" -> Erase("*appsv1.StatefulSet", GetStatefulSet(name, namespace, cause))
      [] resource = "replicasets" -> Erase("*appsv1.ReplicaSet", GetReplicaSet(name, namespace, cause))
      [] resource = "services" -> Erase("*corev1.Service", GetService(name, namespace, cause))
      [] resource = "serviceaccounts" -> Erase("*corev1.ServiceAccount", GetServiceAccount(name, namespace, cause))
      [] resource = "roles" -> Erase("*rbacv1.Role", GetRole(name, namespace, cause))
      [] resource = "clusterroles" -> Erase("*rbacv1.ClusterRole", GetClusterRole(name, namespace, cause))
      [] OTHER -> [obj |-> NilObj, err |-> NoErr, reads |-> <<>>,
                   panic |-> FALSE, dyn |-> "nil"]

GetTarget(resource, name, namespace, cause) ==
    CASE resource = "namespaces" -> Erase("*corev1.Namespace", GetNamespace(name, cause))
      [] resource = "configmaps" -> Erase("*corev1.ConfigMap", GetConfigMap(name, namespace, cause))
      [] resource = "secrets" -> Erase("*corev1.Secret", GetSecret(name, namespace, cause))
      [] resource = "deployments" -> Erase("*appsv1.Deployment", GetDeployment(name, namespace, cause))
      [] resource = "daemonsets" -> Erase("*appsv1.Deployment", GetDeployment(name, namespace, cause))
      [] resource = "statefulsets" -> Erase("*appsv1.StatefulSet", GetStatefulSet(name, namespace, cause))
      [] resource = "replicasets" -> Erase("*appsv1.ReplicaSet", GetReplicaSet(name, namespace, cause))
      [] resource = "services" -> Erase("*corev1.Service", GetService(name, namespace, cause))
      [] resource = "serviceaccounts" -> Erase("*corev1.ServiceAccount", GetServiceAccount(name, namespace, cause))
      [] resource = "roles" -> Erase("*rbacv1.Role", GetRole(name, namespace, cause))
      [] resource = "clusterroles" -> Erase("*rbacv1.ClusterRole", GetClusterRole(name, namespace, cause))
      [] OTHER -> [obj |-> NilObj, err |-> ErrNotManaged, reads |-> <<>>,
                   panic |-> FALSE, dyn |-> "nil"]

----------------------------------------------------------------------------
(* The state machine: callers invoke one operation at a time on the shared  *)
(* client; the cluster's objects come and go between calls.                 *)

Enumeration == {"namespaces", "configmaps", "secrets", "deployments", "daemonsets",
                "statefulsets", "replicasets", "services", "serviceaccounts",
                "roles", "clusterroles"}
Tags == Enumeration \cup {"pods", "bogus-kind"}

NoResult == [obj |-> NilObj, err |-> NoErr, dyn |-> ""]
NoCall == [op |-> "", resource |-> "", name |-> "", namespace |-> "", pod |-> NoPod,
           cause |-> ""]

Invoke(op, resource, name, namespace, pod, cause) ==
    [op |-> op, resource |-> resource, name |-> name, namespace |-> namespace,
     pod |-> pod, cause |-> cause]

Init ==
    /\ store = {}
    /\ pc = "idle"
    /\ call = NoCall
    /\ result = NoResult
    /\ list = <<>>
    /\ reads = <<>>

(* the call c runs to its return (or panic) with outcome r *)
Returns(c, r, dyn) ==
    /\ call' = c
    /\ result' = [obj |-> r.obj, err |-> r.err, dyn |-> dyn]
    /\ reads' = r.reads
    /\ list' = <<>>
    /\ pc' = IF r.panic THEN "panicked" ELSE "returned"
    /\ UNCHANGED store

CallGetPod ==
    \E name \in Names, namespace \in Namespaces, cause \in Causes :
        /\ pc = "idle"
        /\ Returns(Invoke("GetPod", "", name, namespace, NoPod, cause),
                   GetPod(name, namespace, cause), "")

CallGetDeployment ==
    \E name \in Names, namespace \in Namespaces, cause \in Causes :
        /\ pc = "idle"
        /\ Returns(Invoke("GetDeployment", "", name, namespace, NoPod, cause),
                   GetDeployment(name, namespace, cause), "")

CallGetDaemonSet ==
    \E name \in Names, namespace \in Namespaces, cause \in Causes :
        /\ pc = "idle"
        /\ Returns(Invoke("GetDaemonSet", "", name, namespace, NoPod, cause),
                   GetDaemonSet(name, namespace, cause), "")

CallGetStatefulSet ==
    \E name \in Names, namespace \in Namespaces, cause \in Causes :
        /\ pc = "idle"
        /\ Returns(Invoke("GetStatefulSet", "", name, namespace, NoPod, cause),
                   GetStatefulSet(name, namespace, cause), "")

CallGetReplicaSet ==
    \E name \in Names, namespace \in Namespaces, cause \in Causes :
        /\ pc = "idle"
        /\ Returns(Invoke("GetReplicaSet", "", name, namespace, NoPod, cause),
                   GetReplicaSet(name, namespace, cause), "")

CallGetConfigMap ==
    \E name \in Names, namespace \in Namespaces, cause \in Causes :
        /\ pc = "idle"
        /\ Returns(Invoke("GetConfigMap", "", name, namespace, NoPod, cause),
                   GetConfigMap(name, namespace, cause), "")

CallGetSecret ==
    \E name \in Names, namespace \in Namespaces, cause \in Causes :
        /\ pc = "idle"
        /\ Returns(Invoke("GetSecret", "", name, namespace, NoPod, cause),
                   GetSecret(name, namespace, cause), "")

CallGetService ==
    \E name \in Names, namespace \in Namespaces, cause \in Causes :
        /\ pc = "idle"
        /\ Returns(Invoke("GetService", "", name, namespace, NoPod, cause),
                   GetService(name, namespace, cause), "")

CallGetServiceAccount ==
    \E name \in Names, namespace \in Namespaces, cause \in Causes :
        /\ pc = "idle"
        /\ Returns(Invoke("GetServiceAccount", "", name, namespace, NoPod, cause),
                   GetServiceAccount(name, namespace, cause), "")

CallGetRole ==
    \E name \in Names, namespace \in Namespaces, cause \in Causes :
        /\ pc = "idle"
        /\ Returns(Invoke("GetRole", "", name, namespace, NoPod, cause),
                   GetRole(name, namespace, cause), "")

CallGetClusterRole ==
    \E name \in Names, namespace \in Namespaces, cause \in Causes :
        /\ pc = "idle"
        /\ Returns(Invoke("GetClusterRole", "", name, namespace, NoPod, cause),
                   GetClusterRole(name, namespace, cause), "")

CallGetNamespace ==
    \E name \in Names, cause \in Causes :
        /\ pc = "idle"
        /\ Returns(Invoke("GetNamespace", "", name, "", NoPod, cause),
                   GetNamespace(name, cause), "")

CallGetTarget ==
    \E resource \in Tags, name \in Names, namespace \in Namespaces, cause \in Causes :
        /\ pc = "idle"
        /\ LET r == GetTarget(resource, name, namespace, cause)
           IN  Returns(Invoke("GetTarget", resource, name, namespace, NoPod,
                              IF r.reads = <<>> THEN "" ELSE cause),
                       r, r.dyn)

CallGetDeploymentFromPod ==
    \E pod \in OwnerPods, cause \in Causes :
        /\ pc = "idle"
        /\ LET r == GetDeploymentFromPod(pod, cause)
           IN  Returns(Invoke("GetDeploymentFromPod", "", "", "", pod, IF r.reads = <<>> THEN "" ELSE cause),
                       r, "")

CallGetDaemonsetFromPod ==
    \E pod \in OwnerPods, cause \in Causes :
        /\ pc = "idle"
        /\ LET r == GetDaemonsetFromPod(pod, cause)
           IN  Returns(Invoke("GetDaemonsetFromPod", "", "", "", pod, IF r.reads = <<>> THEN "" ELSE cause),
                       r, "")

CallGetStatefulsetFromPod ==
    \E pod \in OwnerPods, cause \in Causes :
        /\ pc = "idle"
        /\ LET r == GetStatefulsetFromPod(pod, cause)
           IN  Returns(Invoke("GetStatefulsetFromPod", "", "", "", pod, IF r.reads = <<>> THEN "" ELSE cause),
                       r, "")

CallGetReplicasetFromPod ==
    \E pod \in OwnerPods, cause \in Causes :
        /\ pc = "idle"
        /\ LET r == GetReplicasetFromPod(pod, cause)
           IN  Returns(Invoke("GetReplicasetFromPod", "", "", "", pod, IF r.reads = <<>> THEN "" ELSE cause),
                       r, "")

CallGetContainers ==
    \E pod \in ContainerPods :
        /\ pc = "idle"
        /\ call' = Invoke("GetContainers", "", "", "", pod, "")
        /\ list' = GetContainers(pod)
        /\ result' = NoResult
        /\ reads' = <<>>
        /\ pc' = "returned"
        /\ UNCHANGED store

(* the caller takes the returned values; the client keeps nothing *)
Return ==
    /\ pc = "returned"
    /\ pc' = "idle"
    /\ call' = NoCall
    /\ result' = NoResult
    /\ list' = <<>>
    /\ reads' = <<>>
    /\ UNCHANGED store

(* the cluster: an object is created or deleted by someone else *)
CreateObject ==
    \E o \in Objects :
        /\ pc = "idle"
        /\ o \notin store
        /\ Cardinality(store) < MaxObjects
        /\ store' = store \cup {o}
        /\ UNCHANGED <<pc, call, result, list, reads>>

DeleteObject ==
    \E o \in store :
        /\ pc = "idle"
        /\ store' = store \ {o}
        /\ UNCHANGED <<pc, call, result, list, reads>>

Next ==
    \/ CallGetPod
    \/ CallGetDeployment
    \/ CallGetDaemonSet
    \/ CallGetStatefulSet
    \/ CallGetReplicaSet
    \/ CallGetConfigMap
    \/ CallGetSecret
    \/ CallGetService
    \/ CallGetServiceAccount
    \/ CallGetRole
    \/ CallGetClusterRole
    \/ CallGetNamespace
    \/ CallGetTarget
    \/ CallGetDeploymentFromPod
    \/ CallGetDaemonsetFromPod
    \/ CallGetStatefulsetFromPod
    \/ CallGetReplicasetFromPod
    \/ CallGetContainers
    \/ Return
    \/ CreateObject
    \/ DeleteObject

Spec == Init /\ [][Next]_vars

----------------------------------------------------------------------------
(* Vocabulary of the properties *)

FetchOps == {"GetPod", "GetDeployment", "GetDaemonSet", "GetStatefulSet",
             "GetReplicaSet", "GetNamespace", "GetConfigMap", "GetSecret",
             "GetService", "GetServiceAccount", "GetRole", "GetClusterRole"}
FromPodOps == {"GetDeploymentFromPod", "GetDaemonsetFromPod",
               "GetStatefulsetFromPod", "GetReplicasetFromPod"}

(* the kind a tag, a typed fetch or an owner resolver is named after *)
KindOf(x) ==
    CASE x \in {"GetPod"} -> "pod"
      [] x \in {"namespaces", "GetNamespace"} -> "namespace"
      [] x \in {"configmaps", "GetConfigMap"} -> "configmap"
      [] x \in {"secrets", "GetSecret"} -> "secret"
      [] x \in {"deployments", "GetDeployment", "GetDeploymentFromPod"} -> "deployment"
      [] x \in {"daemonsets", "GetDaemonSet", "GetDaemonsetFromPod"} -> "daemonset"
      [] x \in {"statefulsets", "GetStatefulSet", "GetStatefulsetFromPod"} -> "statefulset"
      [] x \in {"replicasets", "GetReplicaSet", "GetReplicasetFromPod"} -> "replicaset"
      [] x \in {"services", "GetService"} -> "service"
      [] x \in {"serviceaccounts", "GetServiceAccount"} -> "serviceaccount"
      [] x \in {"roles", "GetRole"} -> "role"
      [] x \in {"clusterroles", "GetClusterRole"} -> "clusterrole"

(* the object of the given kind that (name, namespace) identifies *)
Identified(kind, name, namespace) ==
    [kind |-> kind, name |-> name,
     namespace |-> IF kind \in ClusterKinds THEN ClusterScope ELSE namespace]

(* what the named typed fetch returns on the current Session *)
Fetch(op, name, namespace, cause) ==
    CASE op = "GetPod" -> GetPod(name, namespace, cause)
      [] op = "GetDeployment" -> GetDeployment(name, namespace, cause)
      [] op = "GetDaemonSet" -> GetDaemonSet(name, namespace, cause)
      [] op = "GetStatefulSet" -> GetStatefulSet(name, namespace, cause)
      [] op = "GetReplicaSet" -> GetReplicaSet(name, namespace, cause)
      [] op = "GetNamespace" -> GetNamespace(name, cause)
      [] op = "GetConfigMap" -> GetConfigMap(name, namespace, cause)
      [] op = "GetSecret" -> GetSecret(name, namespace, cause)
      [] op = "GetService" -> GetService(name, namespace, cause)
      [] op = "GetServiceAccount" -> GetServiceAccount(name, namespace, cause)
      [] op = "GetRole" -> GetRole(name, namespace, cause)
      [] op = "GetClusterRole" -> GetClusterRole(name, namespace, cause)

(* what the named owner resolver returns on the current Session *)
FromPod(op, pod, cause) ==
    CASE op = "GetDeploymentFromPod" -> GetDeploymentFromPod(pod, cause)
      [] op = "GetDaemonsetFromPod" -> GetDaemonsetFromPod(pod, cause)
      [] op = "GetStatefulsetFromPod" -> GetStatefulsetFromPod(pod, cause)
      [] op = "GetReplicasetFromPod" -> GetReplicasetFromPod(pod, cause)

(* the typed fetch an owner resolver is built on *)
FetchOfResolver(op) ==
    CASE op = "GetDeploymentFromPod" -> "GetDeployment"
      [] op = "GetDaemonsetFromPod" -> "GetDaemonSet"
      [] op = "GetStatefulsetFromPod" -> "GetStatefulSet"
      [] op = "GetReplicasetFromPod" -> "GetReplicaSet"

(* the (object, error) pair of an outcome, as the caller sees it *)
Pair(r) == [obj |-> r.obj, err |-> r.err]
Seen == [obj |-> result.obj, err |-> result.err]

(* every error a failing typed fetch can return for the model's names *)
FetchErrors ==
    {Fetch(op, n, ns, c).err : op \in FetchOps, n \in Names, ns \in Namespaces,
                               c \in Causes} \ {NoErr}

IsOwnerResolutionFailure(err) ==
    /\ err # NoErr
    /\ err[1] \in {"can't find the deployment for the pod'",
                   "can't find the daemonset for the pod'",
                   "can't find the statefulset for the pod'",
                   "can't find the replicaset for the pod'"}

Returned(ops) == pc = "returned" /\ call.op \in ops

----------------------------------------------------------------------------
(* C1: for each of the eleven tags, when the Session holds an object of the *)
(* tag's own kind under (name, namespace) and the read goes through,        *)
(* GetTarget returns exactly that object and no error.                      *)
C1_GetTargetReturnsOwnKind ==
    (Returned({"GetTarget"}) /\ call.resource \in Enumeration /\ call.cause = "ok")
    => LET o == Identified(KindOf(call.resource), call.name, call.namespace)
       IN  o \in store => (result.obj = o /\ result.err = NoErr)

(* C2: GetTarget("daemonsets", n, ns) and GetTarget("deployments", n, ns)   *)
(* return the same outcome on the same Session, whatever daemonsets it      *)
(* holds: the outcome a call under one tag returned is the outcome of the   *)
(* same call under the other tag.                                           *)
C2_DaemonsetsAsDeployments ==
    (Returned({"GetTarget"}) /\ call.resource \in {"daemonsets", "deployments"})
    => \A other \in {"daemonsets", "deployments"} :
           LET r == GetTarget(other, call.name, call.namespace, call.cause)
           IN  /\ result = [obj |-> r.obj, err |-> r.err, dyn |-> r.dyn]
               /\ reads = r.reads

(* a daemonsets call on a Session that holds the daemonset asked for *)
C2_Witness ==
    /\ Returned({"GetTarget"})
    /\ call.resource = "daemonsets"
    /\ call.cause = "ok"
    /\ Identified("daemonset", call.name, call.namespace) \in store
    /\ result.obj.kind # "daemonset"

(* C3: for a tag outside the enumeration GetTarget returns no object and    *)
(* the "not yet managed" error, which no failing typed fetch returns, and   *)
(* it never returns success or a not-found error.                           *)
C3_UnsupportedTag ==
    (Returned({"GetTarget"}) /\ call.resource \notin Enumeration)
    => /\ result.obj = NilObj
       /\ result.dyn = "nil"
       /\ result.err # NoErr
       /\ result.err = <<"the resource doesn't exist or its type is not yet managed">>
       /\ result.err \notin FetchErrors

C3_Witness ==
    /\ Returned({"GetTarget"})
    /\ call.resource = "bogus-kind"
    /\ store # {}
    /\ result.err # NoErr

(* C4: an owner resolver run on a pod whose first owner reference names o,  *)
(* against a Session holding a controller of the resolver's kind named o in *)
(* the pod's namespace, returns exactly that controller; and any pod with   *)
(* the same first owner reference and namespace gets the same outcome.      *)
C4_OwnerResolved ==
    (Returned(FromPodOps) /\ Len(call.pod.OwnerReferences) >= 1)
    => LET o == Identified(KindOf(call.op), call.pod.OwnerReferences[1].Name,
                           call.pod.Namespace)
       IN  /\ (o \in store /\ call.cause = "ok") => (result.obj = o /\ result.err = NoErr)
           /\ \A p \in OwnerPods :
                  (/\ Len(p.OwnerReferences) >= 1
                   /\ p.OwnerReferences[1] = call.pod.OwnerReferences[1]
                   /\ p.Namespace = call.pod.Namespace)
                  => Seen = Pair(FromPod(call.op, p, call.cause))

(* a resolver found the controller of a pod with two different owners *)
C4_Witness ==
    /\ Returned(FromPodOps)
    /\ Len(call.pod.OwnerReferences) = 2
    /\ call.pod.OwnerReferences[1] # call.pod.OwnerReferences[2]
    /\ result.obj \in store

(* C5: when the typed fetch behind an owner resolver fails, the resolver    *)
(* returns that fetch's error unchanged and no object; the "can't find the  *)
(* <kind> for the pod" error is returned only when the typed fetch returned *)
(* neither an error nor an object.                                          *)
C5_FetchErrorPropagated ==
    (Returned(FromPodOps) /\ Len(call.pod.OwnerReferences) >= 1)
    => LET f == Fetch(FetchOfResolver(call.op), call.pod.OwnerReferences[1].Name,
                      call.pod.Namespace, call.cause)
       IN  /\ f.err # NoErr
              => (result.obj = NilObj /\ result.err = f.err
                  /\ ~IsOwnerResolutionFailure(result.err))
           /\ IsOwnerResolutionFailure(result.err)
              => (f.err = NoErr /\ f.obj = NilObj)

(* a resolver whose read found nothing *)
C5_Witness ==
    /\ Returned(FromPodOps)
    /\ reads # <<>>
    /\ reads[1].outcome = "NotFound"
    /\ result.err \in FetchErrors

(* C6: an owner resolver called with a pod that has no owner reference      *)
(* returns a "no owner reference" error and no object, without crashing and *)
(* without a Session read.                                                  *)
C6_MissingOwnerReference ==
    (call.op \in FromPodOps /\ call.pod.OwnerReferences = <<>>)
    => /\ pc = "returned"
       /\ result.obj = NilObj
       /\ result.err # NoErr
       /\ result.err \notin FetchErrors
       /\ ~IsOwnerResolutionFailure(result.err)
       /\ reads = <<>>

(* C7: a cluster-scoped fetch returns the same outcome whatever namespace   *)
(* it is given: the outcome GetClusterRole, GetTarget("clusterroles") or    *)
(* GetTarget("namespaces") returned is the outcome under any other          *)
(* namespace value.                                                         *)
C7_NamespaceIgnored ==
    /\ Returned({"GetClusterRole"})
       => \A ns \in Namespaces :
              Seen = Pair(GetClusterRole(call.name, ns, call.cause))
    /\ (Returned({"GetTarget"}) /\ call.resource \in {"clusterroles", "namespaces"})
       => \A ns \in Namespaces :
              Seen = Pair(GetTarget(call.resource, call.name, ns, call.cause))

(* C8: a typed fetch returns exactly one of an object and an error: the     *)
(* Session's object and no error when the read succeeds; no object and one  *)
(* domain error, the same for every cause of failure, when the read fails.  *)
C8_ObjectOrFlatError ==
    Returned(FetchOps)
    => /\ (result.obj = NilObj) # (result.err = NoErr)
       /\ Len(reads) >= 1
       /\ reads[1].outcome = "ok"
          => /\ result.err = NoErr
             /\ result.obj = Identified(KindOf(call.op), call.name, call.namespace)
             /\ result.obj \in store
       /\ reads[1].outcome # "ok"
          => /\ result.obj = NilObj
             /\ \A c \in Causes :
                    LET r == Fetch(call.op, call.name, call.namespace, c)
                    IN  r.err # NoErr => r.err = result.err

(* a typed fetch whose read was refused although the object exists *)
C8_Witness ==
    /\ Returned(FetchOps)
    /\ reads # <<>>
    /\ reads[1].outcome = "Forbidden"
    /\ Identified(KindOf(call.op), call.name, call.namespace) \in store
    /\ result.err # NoErr

(* C9: GetContainers returns the names of the pod's containers, as many and *)
(* in the same order as pod.Spec.Containers, an empty sequence for a pod    *)
(* without containers, and reads nothing from the Session.                  *)
C9_ContainerNames ==
    Returned({"GetContainers"})
    => /\ Len(list) = Len(call.pod.Containers)
       /\ \A i \in 1..Len(call.pod.Containers) : list[i] = call.pod.Containers[i].Name
       /\ call.pod.Containers = <<>> => list = <<>>
       /\ reads = <<>>
       /\ result.err = NoErr

(* the names of two differently named containers were returned *)
C9_Witness ==
    /\ Returned({"GetContainers"})
    /\ Len(call.pod.Containers) = 2
    /\ list = <<"app", "sidecar">>

(* one step of a reading call: from idle to its return *)
OneRead ==
    /\ pc = "idle"
    /\ pc' # "idle"
    /\ \/ call'.op \in FetchOps
       \/ call'.op = "GetTarget" /\ call'.resource \in Enumeration
       \/ call'.op \in FromPodOps /\ Len(call'.pod.OwnerReferences) >= 1
    => /\ pc' = "returned"
       /\ Len(reads') = 1
       /\ call'.op \in FromPodOps => reads'[1].kind # "pod"
       /\ store' = store

(* C10: a typed fetch, a GetTarget call with a tag of the enumeration and   *)
(* an owner resolver on a pod with an owner reference each issue exactly    *)
(* one Session read before returning, whether it succeeds or fails, never   *)
(* a read of the pod, and leave the Session's data unchanged.               *)
C10_ExactlyOneRead == [][OneRead]_vars

(* an owner resolver returned after its only read failed *)
C10_Witness ==
    /\ Returned(FromPodOps)
    /\ Len(reads) = 1
    /\ reads[1].outcome = "Transport"
    /\ result.err # NoErr

====
